---- MODULE Spec2Model ----
(***************************************************************************)
(* Model of pycdft/common/wfc.py: the Wavefunction index maps              *)
(* (idx_skb_map, skb_idx_map, norb) and the two WfcManager stores psi_r    *)
(* (transform = normalize) and psi_g (transform = identity).               *)
(*                                                                         *)
(* Python values are encoded as follows.                                   *)
(*   - an optional integer (the result of skb2idx, a dict key of qty):     *)
(*     <<i>> for the integer i, <<>> for None;                             *)
(*   - a key handed to a store: [form, c], form "int" (c = <<component>>), *)
(*     "str" (a non-numeric string) or "tuple" (c = its components);       *)
(*   - a component of a tuple key: [ty, v], ty "int" (the integer v),      *)
(*     "str" (a non-numeric string) or "none" (None);                      *)
(*   - the outcome of a call: [err |-> "none", val |-> v] or [err |-> E],  *)
(*     E the name of the Python exception that leaves the call;            *)
(*   - an array: [shape |-> <<a, b, c>>, data |-> <<x1, ..., xn>>];        *)
(*   - an element of a normalized array: [num |-> x, n2 |-> <<p, q>>],     *)
(*     the real number x / sqrt(p / q) (0 / sqrt(0) when the array is 0,   *)
(*     numpy's nan); floating-point rounding is not modelled.              *)
(* Assertions are modelled as enabled (the interpreter's default mode).    *)
(*                                                                         *)
(* History variables: last records the latest call: its operation, the     *)
(* store, the form of the key, oob: whether the key was three integers     *)
(* with one outside its bound, the exception, hit: whether a write         *)
(* replaced an entry, a read found one or a clear removed some, the key    *)
(* and the value of a write that succeeded, and the argument and the       *)
(* result of an index query;                                               *)
(* cleared[s] holds from a clear() of store s until its next successful    *)
(* write; nops counts the store operations of the run.                     *)
(***************************************************************************)
EXTENDS Integers, Sequences, FiniteSets, TLC

\* ------------------------------------------------------------- bounds
\* band counts of a channel, when the stores are exercised
MaxBnd == 1
\* spin channels and band counts of a channel, when the index maps are queried
MaxSpinIdx == 2
MaxBndIdx == 3
\* store operations in a run
MaxOps == 2
GridN1 == 1
GridN2 == 1
GridN3 == 2
Omega == 8

\* nspin is 1 (spin unpolarized) or 2 (spin polarized); the stores are exercised
\* with these
MaxSpin == 2
\* nkpt is pinned to 1 by the constructor's assertion
NKpt == 1

\* nspin, nkpt, nbnd, idx_skb_map, skb_idx_map, norb: the attributes of the
\* Wavefunction set by __init__ (nbnd[<<s, k>>] is self.nbnd[s, k]);
\* psi_r, psi_g: the dict qty of the two WfcManager objects
VARIABLES nspin, nkpt, nbnd, idx_skb_map, skb_idx_map, norb,
          psi_r, psi_g, last, cleared, nops

wfcvars == <<nspin, nkpt, nbnd, idx_skb_map, skb_idx_map, norb>>
vars == <<nspin, nkpt, nbnd, idx_skb_map, skb_idx_map, norb,
          psi_r, psi_g, last, cleared, nops>>

\* ------------------------------------------------------------- Python values
None == <<>>

Ok(v) == [err |-> "none", val |-> v]

Raise(e) == [err |-> e]

IntC(i) == [ty |-> "int", v |-> i]

StrC == [ty |-> "str", v |-> 0]

NoneC == [ty |-> "none", v |-> 0]

IntKey(i) == [form |-> "int", c |-> <<IntC(i)>>]

StrKey == [form |-> "str", c |-> <<>>]

TupleKey(cs) == [form |-> "tuple", c |-> cs]

Skb(s, k, b) == TupleKey(<<IntC(s), IntC(k), IntC(b)>>)

\* int(x) on a component
PyInt(x) ==
  CASE x.ty = "int" -> Ok(x.v)
    [] x.ty = "str" -> Raise("ValueError")
    [] OTHER -> Raise("TypeError")

\* int(key) on a whole key
PyIntKey(key) ==
  CASE key.form = "int" -> Ok(key.c[1].v)
    [] key.form = "str" -> Raise("ValueError")
    [] OTHER -> Raise("TypeError")

\* ------------------------------------------------------------- Wavefunction.__init__
\* nbnd given as one integer (shared by all channels) or as an array
NbndArray(ns, nk, nb) ==
  IF nb.kind = "int"
    THEN [p \in (0 .. ns - 1) \X (0 .. nk - 1) |-> nb.n]
    ELSE nb.a

\* np.ndindex(ns, nk): the pairs in row-major order
RECURSIVE NdIndexFrom(_, _, _, _)
NdIndexFrom(ns, nk, s, k) ==
  IF s >= ns \/ nk <= 0 THEN <<>>
  ELSE IF k >= nk THEN NdIndexFrom(ns, nk, s + 1, 0)
  ELSE <<(<<s, k>>)>> \o NdIndexFrom(ns, nk, s, k + 1)

NdIndex(ns, nk) == NdIndexFrom(ns, nk, 0, 0)

\* the band loop running one band too far: range(nbnd + 1)
RECURSIVE FillIdxSkbMap_ExtraBand(_, _, _, _, _)
FillIdxSkbMap_ExtraBand(nb, pairs, ibnd, idx, m) ==
  IF pairs = <<>> THEN m
  ELSE IF ibnd <= nb[Head(pairs)]
    THEN FillIdxSkbMap_ExtraBand(nb, pairs, ibnd + 1, idx + 1,
                                 (idx :> <<Head(pairs)[1], Head(pairs)[2], ibnd>>) @@ m)
    ELSE FillIdxSkbMap_ExtraBand(nb, Tail(pairs), 0, idx, m)

\* the band loop counting down: reversed(range(nbnd))
RECURSIVE FillIdxSkbMap_BandsDown(_, _, _, _, _)
FillIdxSkbMap_BandsDown(nb, pairs, ibnd, idx, m) ==
  IF pairs = <<>> THEN m
  ELSE IF ibnd < nb[Head(pairs)]
    THEN FillIdxSkbMap_BandsDown(nb, pairs, ibnd + 1, idx + 1,
           (idx :> <<Head(pairs)[1], Head(pairs)[2], nb[Head(pairs)] - 1 - ibnd>>) @@ m)
    ELSE FillIdxSkbMap_BandsDown(nb, Tail(pairs), 0, idx, m)

\* the two nested loops filling idx_skb_map; m is the map so far, idx the counter
RECURSIVE FillIdxSkbMap(_, _, _, _, _)
FillIdxSkbMap(nb, pairs, ibnd, idx, m) ==
  IF pairs = <<>> THEN m
  ELSE IF ibnd < nb[Head(pairs)]
    THEN FillIdxSkbMap(nb, pairs, ibnd + 1, idx + 1,
                       (idx :> <<Head(pairs)[1], Head(pairs)[2], ibnd>>) @@ m)
    ELSE FillIdxSkbMap(nb, Tail(pairs), 0, idx, m)

BuildIdxSkbMap(ns, nk, nb) == FillIdxSkbMap(nb, NdIndex(ns, nk), 0, 0, <<>>)

\* len(self.idx_skb_map)
BuildNorb(m) == Cardinality(DOMAIN m)

\* { idx_skb_map[idx]: idx for idx in range(norb) }: a later idx wins
BuildSkbIdxMap(m, n) ==
  [t \in {m[i] : i \in 0 .. n - 1} |->
     CHOOSE i \in 0 .. n - 1 : m[i] = t /\ \A j \in 0 .. n - 1 : m[j] = t => j <= i]

\* the inputs of the constructor
NbndInputs(ns, nk, maxb) ==
  {[kind |-> "int", n |-> n, a |-> <<>>] : n \in 0 .. maxb}
    \cup {[kind |-> "array", n |-> 0, a |-> f] :
            f \in [(0 .. ns - 1) \X (0 .. nk - 1) -> 0 .. maxb]}

\* ------------------------------------------------------------- index queries
skb2idx(ispin, ikpt, ibnd) ==
  IF <<ispin, ikpt, ibnd>> \in DOMAIN skb_idx_map
    THEN <<skb_idx_map[<<ispin, ikpt, ibnd>>]>>
    ELSE None

idx2skb(idx) ==
  IF idx \in DOMAIN idx_skb_map THEN Ok(idx_skb_map[idx]) ELSE Raise("KeyError")

\* ------------------------------------------------------------- collaborators
\* the wavefunction grid: its extents and its number of points
wgrid == [n1 |-> GridN1, n2 |-> GridN2, n3 |-> GridN3, N |-> GridN1 * GridN2 * GridN3]

\* the sample: its volume
sample == [omega |-> Omega]

\* ------------------------------------------------------------- Wavefunction.normalize
RECURSIVE SumAbs2(_)
SumAbs2(data) ==
  IF data = <<>> THEN 0 ELSE Head(data) * Head(data) + SumAbs2(Tail(data))

\* psir / norm, given the square of norm as a fraction
Divide(psir, norm2) ==
  [shape |-> psir.shape,
   data |-> [i \in DOMAIN psir.data |-> [num |-> psir.data[i], n2 |-> norm2]]]

\* the norm without the volume element: sqrt(sum(|psir|^2) / N)
normalize_NoOmega(psir) ==
  IF psir.shape # <<wgrid.n1, wgrid.n2, wgrid.n3>> THEN Raise("AssertionError")
  ELSE Ok(Divide(psir, <<SumAbs2(psir.data), wgrid.N>>))

normalize(psir) ==
  IF psir.shape # <<wgrid.n1, wgrid.n2, wgrid.n3>> THEN Raise("AssertionError")
  ELSE Ok(Divide(psir, <<SumAbs2(psir.data) * sample.omega, wgrid.N>>))

\* the default transform of WfcManager: lambda f: f
identity(f) == Ok(f)

\* the transform each store was constructed with
transform(store, value) == IF store = "psi_r" THEN normalize(value) ELSE identity(value)

\* ------------------------------------------------------------- WfcManager._get_idx
\* int(key[i]): IndexError when the key is too short
Component(key, i) ==
  IF i > Len(key.c) THEN Raise("IndexError") ELSE PyInt(key.c[i])

\* the three assert statements, in order; nbnd[ispin, ikpt] raises IndexError
\* outside the array
CheckBounds(ispin, ikpt, ibnd) ==
  IF ~(0 <= ispin /\ ispin <= nspin) THEN Raise("AssertionError")
  ELSE IF ~(0 <= ikpt /\ ikpt <= nkpt) THEN Raise("AssertionError")
  ELSE IF ~(0 <= ibnd) THEN Raise("AssertionError")
  ELSE IF <<ispin, ikpt>> \notin DOMAIN nbnd THEN Raise("IndexError")
  ELSE IF ~(ibnd <= nbnd[<<ispin, ikpt>>]) THEN Raise("AssertionError")
  ELSE Ok(<<ispin, ikpt, ibnd>>)

\* the inner try block, given its three int(key[i]): the exception that leaves it,
\* or the validated triple
TryComponents(c0, c1, c2) ==
  IF c0.err # "none" THEN c0
  ELSE IF c1.err # "none" THEN c1
  ELSE IF c2.err # "none" THEN c2
  ELSE CheckBounds(c0.val, c1.val, c2.val)

TryTriple(key) == TryComponents(Component(key, 1), Component(key, 2), Component(key, 3))

\* the except clauses without AssertionError: except IndexError
Handle_NoAssert(r) ==
  CASE r.err = "ValueError" -> Raise("ValueError")
    [] r.err = "IndexError" -> Raise("IndexError")
    [] OTHER -> r

\* the except clauses of the inner try block
Handle(r) ==
  CASE r.err = "ValueError" -> Raise("ValueError")
    [] r.err \in {"AssertionError", "IndexError"} -> Raise("IndexError")
    [] OTHER -> r

\* the band taken for the internal index: idx = ibnd
Resolve_BandOnly(t) ==
  IF t.err # "none" THEN t ELSE Ok(<<t.val[3]>>)

\* after the inner try block: idx = self.wfc.skb2idx(ispin, ikpt, ibnd)
Resolve(t) ==
  IF t.err # "none" THEN t ELSE Ok(skb2idx(t.val[1], t.val[2], t.val[3]))

\* the outer try block, given int(key)
TryInt(key, r) ==
  IF r.err = "none" THEN Ok(<<r.val>>)
  ELSE IF r.err # "TypeError" THEN r
  ELSE Resolve(Handle(TryTriple(key)))

_get_idx(key) == TryInt(key, PyIntKey(key))

\* ------------------------------------------------------------- WfcManager
indices(qty) == DOMAIN qty

\* a clear() that drops the integer keys only
clear_IntOnly(qty) == [i \in DOMAIN qty \cap {None} |-> qty[i]]

clear(qty) == [i \in {} |-> 0]

\* self.qty[idx], given the outcome of _get_idx
Lookup(qty, r) ==
  IF r.err # "none" THEN r
  ELSE IF r.val \in DOMAIN qty THEN Ok(qty[r.val])
  ELSE Raise("KeyError")

getitem(qty, key) == Lookup(qty, _get_idx(key))

\* a write that keeps an entry already there: self.qty.setdefault(idx, v)
Assign_KeepFirst(qty, idx, v) ==
  IF v.err # "none" THEN [err |-> v.err, qty |-> qty]
  ELSE [err |-> "none",
        qty |-> [i \in DOMAIN qty \cup {idx} |-> IF i \in DOMAIN qty THEN qty[i] ELSE v.val]]

\* self.qty[idx] = v, given the outcome v of the transform
Assign(qty, idx, v) ==
  IF v.err # "none" THEN [err |-> v.err, qty |-> qty]
  ELSE [err |-> "none",
        qty |-> [i \in DOMAIN qty \cup {idx} |-> IF i = idx THEN v.val ELSE qty[i]]]

\* a write that removes the old entry before it transforms the value:
\* self.qty.pop(idx, None); self.qty[idx] = self.transform(value)
SetAt_PopFirst(store, qty, r, value) ==
  IF r.err # "none" THEN [err |-> r.err, qty |-> qty]
  ELSE Assign([i \in DOMAIN qty \ {r.val} |-> qty[i]], r.val, transform(store, value))

\* __setitem__, given the outcome of _get_idx: the transform runs after it
SetAt(store, qty, r, value) ==
  IF r.err # "none" THEN [err |-> r.err, qty |-> qty]
  ELSE Assign(qty, r.val, transform(store, value))

\* the outcome of __setitem__ and the dict after it
setitem(store, qty, key, value) == SetAt(store, qty, _get_idx(key), value)

\* ------------------------------------------------------------- inputs
Stores == {"psi_r", "psi_g"}

Store(s) == IF s = "psi_r" THEN psi_r ELSE psi_g

GridShape == <<wgrid.n1, wgrid.n2, wgrid.n3>>

Uniform(shape, x) == [shape |-> shape, data |-> [i \in 1 .. shape[1] * shape[2] * shape[3] |-> x]]

Ramp(shape) == [shape |-> shape, data |-> [i \in 1 .. shape[1] * shape[2] * shape[3] |-> i]]

\* arrays of the grid's shape: all one, and 1, 2, ..., N
GoodFields == {Uniform(GridShape, 1), Ramp(GridShape)}

\* an array of another shape
BadFields == {Uniform(<<wgrid.n1, wgrid.n2, wgrid.n3 + 1>>, 1)}

Fields == GoodFields \cup BadFields

\* every internal index, and the first integer that is none
IntKeys == {IntKey(i) : i \in 0 .. norb}

\* the largest band count of the configuration
TopBnd == CHOOSE n \in {nbnd[p] : p \in DOMAIN nbnd} : \A p \in DOMAIN nbnd : nbnd[p] <= n

\* every triple of integers around the configured ranges
AllSkb ==
  {<<s, k, b>> : s \in -1 .. nspin + 1, k \in -1 .. nkpt + 1, b \in -1 .. TopBnd + 1}

\* the triples the stores are exercised with: every triple with spin and k point
\* in range and band up to the largest count, and triples with one component,
\* or all three, outside
SomeSkb ==
  {t \in AllSkb :
     \/ t[1] \in 0 .. nspin - 1 /\ t[2] \in 0 .. nkpt - 1
     \/ t[2] = 0 /\ t[3] = 0
     \/ t[1] = 0 /\ t[3] = 0
     \/ t = <<nspin + 1, nkpt + 1, -1>>}

SkbKeys == {Skb(t[1], t[2], t[3]) : t \in SomeSkb}

\* keys that are neither an integer nor three integers
OddKeys ==
  {StrKey,
   TupleKey(<<IntC(0), IntC(0)>>),
   TupleKey(<<IntC(nspin + 1), IntC(0), StrC>>),
   TupleKey(<<IntC(0), NoneC, IntC(0)>>)}

Keys == IntKeys \cup SkbKeys \cup OddKeys


\* how a key addresses the store: by internal index, by triple, or neither
Form(key) ==
  IF key.form = "int" THEN "idx"
  ELSE IF key.form = "tuple" /\ Len(key.c) = 3 /\ \A i \in 1 .. 3 : key.c[i].ty = "int" THEN "skb"
  ELSE "other"

\* ------------------------------------------------------------- the state machine
\* a key of three integers with a component outside its bound: spin or kpt below
\* 0 or above the count, band below 0 or above the channel's count
OutOfBound(key) ==
  /\ Form(key) = "skb"
  /\ LET s == key.c[1].v
         k == key.c[2].v
         b == key.c[3].v
     IN  \/ s < 0 \/ s > nspin
         \/ k < 0 \/ k > nkpt
         \/ b < 0
         \/ <<s, k>> \in DOMAIN nbnd /\ b > nbnd[<<s, k>>]

NoKey == TupleKey(<<>>)

NoValue == [shape |-> <<>>, data |-> <<>>]

Call(op, s) ==
  [op |-> op, store |-> s, form |-> "-", oob |-> FALSE, err |-> "none", hit |-> FALSE,
   key |-> NoKey, val |-> NoValue, arg |-> <<>>, res |-> <<>>]

InitWith(maxs, maxb) ==
  /\ nspin \in 1 .. maxs
  /\ nkpt = NKpt
  /\ \E nb \in NbndInputs(nspin, nkpt, maxb) : nbnd = NbndArray(nspin, nkpt, nb)
  /\ idx_skb_map = BuildIdxSkbMap(nspin, nkpt, nbnd)
  /\ norb = BuildNorb(idx_skb_map)
  /\ skb_idx_map = BuildSkbIdxMap(idx_skb_map, norb)
  /\ psi_g = [i \in {} |-> 0]
  /\ psi_r = [i \in {} |-> 0]
  /\ last = Call("init", "-")
  /\ cleared = [s \in Stores |-> FALSE]
  /\ nops = 0

Init == InitWith(MaxSpin, MaxBnd)

InitIdx == InitWith(MaxSpinIdx, MaxBndIdx)

\* store[key] = value
SetItem(s, key, value) ==
  /\ nops < MaxOps
  /\ \E r \in {setitem(s, Store(s), key, value)} :
         /\ psi_r' = IF s = "psi_r" THEN r.qty ELSE psi_r
         /\ psi_g' = IF s = "psi_g" THEN r.qty ELSE psi_g
         /\ last' = [Call("set", s) EXCEPT
                       !.form = Form(key), !.oob = OutOfBound(key), !.err = r.err,
                       !.hit = r.err = "none" /\ indices(r.qty) = indices(Store(s)),
                       !.key = IF r.err = "none" THEN key ELSE NoKey,
                       !.val = IF r.err = "none" THEN value ELSE NoValue]
         /\ cleared' = IF r.err = "none" THEN [cleared EXCEPT ![s] = FALSE] ELSE cleared
  /\ nops' = nops + 1
  /\ UNCHANGED wfcvars

\* store[key]
GetItem(s, key) ==
  /\ nops < MaxOps
  /\ \E r \in {getitem(Store(s), key)} :
         last' = [Call("get", s) EXCEPT
                    !.form = Form(key), !.oob = OutOfBound(key), !.err = r.err,
                    !.hit = r.err = "none"]
  /\ nops' = nops + 1
  /\ UNCHANGED <<wfcvars, psi_r, psi_g, cleared>>

\* store.clear()
Clear(s) ==
  /\ nops < MaxOps
  /\ psi_r' = IF s = "psi_r" THEN clear(psi_r) ELSE psi_r
  /\ psi_g' = IF s = "psi_g" THEN clear(psi_g) ELSE psi_g
  /\ last' = [Call("clear", s) EXCEPT !.hit = indices(Store(s)) # {}]
  /\ cleared' = [cleared EXCEPT ![s] = TRUE]
  /\ nops' = nops + 1
  /\ UNCHANGED wfcvars

\* wfc.skb2idx(ispin, ikpt, ibnd)
Skb2Idx(ispin, ikpt, ibnd) ==
  /\ last' = [Call("skb2idx", "-") EXCEPT
                !.arg = <<ispin, ikpt, ibnd>>, !.res = skb2idx(ispin, ikpt, ibnd)]
  /\ UNCHANGED <<wfcvars, psi_r, psi_g, cleared, nops>>

\* wfc.idx2skb(idx)
Idx2Skb(idx) ==
  /\ \E r \in {idx2skb(idx)} :
         last' = [Call("idx2skb", "-") EXCEPT
                    !.err = r.err, !.arg = <<idx>>,
                    !.res = IF r.err = "none" THEN r.val ELSE <<>>]
  /\ UNCHANGED <<wfcvars, psi_r, psi_g, cleared, nops>>

\* the stores in use
Next ==
  \/ \E s \in Stores, key \in Keys, value \in Fields : SetItem(s, key, value)
  \/ \E s \in Stores, key \in Keys : GetItem(s, key)
  \/ \E s \in Stores : Clear(s)

Spec == Init /\ [][Next]_vars

\* the stores written by (spin, kpoint, band) keys only
NextSkb ==
  \/ \E s \in Stores, key \in SkbKeys, value \in Fields : SetItem(s, key, value)
  \/ \E s \in Stores, key \in Keys : GetItem(s, key)
  \/ \E s \in Stores : Clear(s)

SpecSkb == Init /\ [][NextSkb]_vars

\* the index maps queried
NextIdx ==
  \/ \E t \in AllSkb : Skb2Idx(t[1], t[2], t[3])
  \/ \E i \in -1 .. norb + 1 : Idx2Skb(i)

SpecIdx == InitIdx /\ [][NextIdx]_vars

\* ------------------------------------------------------------- properties
\* the valid triples of the configuration, from the band counts
ValidTriples ==
  {t \in (0 .. nspin - 1) \X (0 .. nkpt - 1) \X (0 .. TopBnd) : t[3] < nbnd[<<t[1], t[2]>>]}

RECURSIVE SumOver(_, _)
SumOver(f, S) ==
  IF S = {} THEN 0 ELSE LET x == CHOOSE y \in S : TRUE IN f[x] + SumOver(f, S \ {x})

\* (s1,k1,b1) before (s2,k2,b2) in spin, k point, band order
LexLess(u, t) ==
  \/ u[1] < t[1]
  \/ u[1] = t[1] /\ u[2] < t[2]
  \/ u[1] = t[1] /\ u[2] = t[2] /\ u[3] < t[3]

\* C1: the index built at construction is a total bijection between 0..norb-1 and
\* the valid triples: idx2skb(skb2idx(s,k,b)) = (s,k,b) for every valid triple,
\* skb2idx(idx2skb(i)) = i for every i in [0, norb), and norb is the sum of the
\* band counts over all channels.
C1_Bijection ==
  /\ DOMAIN idx_skb_map = 0 .. norb - 1
  /\ DOMAIN skb_idx_map = ValidTriples
  /\ \A t \in ValidTriples :
       LET i == skb2idx(t[1], t[2], t[3])
       IN  i # None /\ i[1] \in 0 .. norb - 1 /\ idx2skb(i[1]) = Ok(t)
  /\ \A i \in 0 .. norb - 1 :
       LET r == idx2skb(i)
       IN  r.err = "none" /\ r.val \in ValidTriples
             /\ skb2idx(r.val[1], r.val[2], r.val[3]) = <<i>>
  /\ norb = SumOver(nbnd, DOMAIN nbnd)

\* an index of the second spin channel was translated back and forth, in a
\* configuration whose channels have different band counts
C1_Witness ==
  /\ nspin = 2 /\ nbnd[<<0, 0>>] # nbnd[<<1, 0>>] /\ nbnd[<<0, 0>>] > 0
  /\ last.op = "idx2skb" /\ last.err = "none" /\ last.res[1] = 1
  /\ skb2idx(last.res[1], last.res[2], last.res[3]) = last.arg

\* C2: the internal index of a valid triple is the number of valid triples that
\* precede it in (spin, k point, band) order, also when the band counts differ
\* between channels; so the smaller of two valid triples has the smaller index.
C2_LexRank ==
  /\ \A t \in ValidTriples :
       skb2idx(t[1], t[2], t[3]) = <<Cardinality({u \in ValidTriples : LexLess(u, t)})>>
  /\ \A t, u \in ValidTriples :
       LexLess(u, t) => skb2idx(u[1], u[2], u[3])[1] < skb2idx(t[1], t[2], t[3])[1]

\* the index of a band of the second channel was asked for, the first channel
\* having another, positive, number of bands
C2_Witness ==
  /\ nspin = 2 /\ nbnd[<<0, 0>>] # nbnd[<<1, 0>>] /\ nbnd[<<0, 0>>] > 1
  /\ last.op = "skb2idx" /\ last.arg[1] = 1 /\ last.arg[3] >= 1
  /\ last.res # None /\ last.res[1] = nbnd[<<0, 0>>] + last.arg[3]

\* C9: idx2skb of an internal index outside [0, norb) fails with IndexError, a
\* kind other than the one a store read of an unpopulated in-range index raises.
C9_Idx2SkbOutOfRange ==
  (last.op = "idx2skb" /\ last.arg[1] \notin 0 .. norb - 1) =>
     /\ last.err = "IndexError"
     /\ \A s \in Stores, i \in 0 .. norb - 1 :
          <<i>> \notin indices(Store(s)) => last.err # getitem(Store(s), IntKey(i)).err

\* C3: a store is addressable by either scheme with the same result: for every
\* valid triple with internal index i, a read by the triple and a read by i have
\* the same outcome, and a write by the triple and a write by i leave the same
\* store.
SameAddress(s, qty, k1, k2) ==
  /\ getitem(qty, k1) = getitem(qty, k2)
  /\ \A v \in Fields : setitem(s, qty, k1, v) = setitem(s, qty, k2, v)

C3_DualAddress ==
  \A s \in Stores, t \in ValidTriples :
    /\ skb2idx(t[1], t[2], t[3]) # None
    /\ SameAddress(s, Store(s), Skb(t[1], t[2], t[3]), IntKey(skb2idx(t[1], t[2], t[3])[1]))

\* psi_r was written by a triple of the second spin channel and the entry is
\* read back by its internal index
C3_Witness ==
  /\ last.op = "set" /\ last.form = "skb" /\ last.err = "none" /\ last.store = "psi_r"
  /\ \E t \in ValidTriples :
       /\ t[1] = 1
       /\ indices(psi_r) = {skb2idx(t[1], t[2], t[3])}
       /\ getitem(psi_r, IntKey(skb2idx(t[1], t[2], t[3])[1])).err = "none"

\* C4: after writes by (spin, kpoint, band) keys and clears, every key of
\* indices() is an internal index in [0, norb).
C4_KeysAreInternal ==
  \A s \in Stores : indices(Store(s)) \subseteq {<<i>> : i \in 0 .. norb - 1}

\* C5: a successful write followed by a read with the same key returns the
\* transformed value (the value itself in psi_g, the normalized value in psi_r),
\* whatever the store held before.
\* value / sqrt(sum(|value|^2) * omega / N), element by element
Normalized(value) ==
  [shape |-> value.shape,
   data |-> [i \in DOMAIN value.data |->
               [num |-> value.data[i],
                n2 |-> <<SumAbs2(value.data) * Omega, GridN1 * GridN2 * GridN3>>]]]

C5_SetThenGet ==
  (last.op = "set" /\ last.err = "none") =>
     getitem(Store(last.store), last.key) =
       Ok(IF last.store = "psi_r" THEN Normalized(last.val) ELSE last.val)

\* psi_r holds the normalized ramp, just written over another entry by a triple key
C5_Witness ==
  /\ last.op = "set" /\ last.err = "none" /\ last.store = "psi_r" /\ last.form = "skb"
  /\ last.hit /\ last.val = Ramp(GridShape)
  /\ \E i \in indices(psi_r) : psi_r[i] = Normalized(Ramp(GridShape))

StoreNext(s) == IF s = "psi_r" THEN psi_r' ELSE psi_g'

\* C6: writing a key and writing it again leaves one entry for it, with the
\* latest transformed value, and as many entries as after the first write.
C6_Overwrite ==
  [][(/\ nops' = nops + 1
      /\ last.op = "set" /\ last.err = "none"
      /\ last'.op = "set" /\ last'.err = "none"
      /\ last'.store = last.store /\ last'.key = last.key) =>
       (/\ Cardinality(indices(StoreNext(last.store))) = Cardinality(indices(Store(last.store)))
        /\ Cardinality({i \in indices(StoreNext(last.store)) : Ok(i) = _get_idx(last.key)}) = 1
        /\ getitem(StoreNext(last.store), last.key) = transform(last.store, last'.val))]_vars

\* the only entry of psi_g, written by a triple key, has been replaced by a write
\* of another value with the same key
C6_Witness ==
  /\ last.op = "set" /\ last.err = "none" /\ last.hit /\ last.store = "psi_g"
  /\ last.form = "skb" /\ nops = 2
  /\ Cardinality(indices(psi_g)) = 1 /\ indices(psi_r) = {}

\* C7 as stated: after clear() and until the next write, indices() is empty and
\* a read fails with KeyError for any key, integer or triple.
C7_AnyKeyNotFound ==
  \A s \in Stores :
    cleared[s] =>
      /\ indices(Store(s)) = {}
      /\ \A key \in IntKeys \cup SkbKeys : getitem(Store(s), key).err = "KeyError"

\* C7, amended: after clear() and until the next write, indices() is empty, a
\* read fails with KeyError for every key that key resolution accepts and with
\* the error of key resolution for every other key; clear() is idempotent.
C7_Clear ==
  \A s \in Stores :
    cleared[s] =>
      /\ indices(Store(s)) = {}
      /\ \A key \in Keys :
           LET r == _get_idx(key)
           IN  getitem(Store(s), key).err = IF r.err = "none" THEN "KeyError" ELSE r.err
      /\ clear(Store(s)) = Store(s)

\* a clear() has emptied a store that held entries
C7_Witness ==
  /\ last.op = "clear" /\ last.hit
  /\ cleared[last.store] /\ indices(Store(last.store)) = {}

\* C8: for a key of three integers with a component outside its bound, a read
\* and a write both fail with IndexError, whatever the store holds.
C8_OutOfRange ==
  (last.op \in {"get", "set"} /\ last.oob) => last.err = "IndexError"

\* a write by a triple key with a component out of bound was refused with
\* IndexError on a store holding an entry
C8_Witness ==
  /\ last.op = "set" /\ last.oob /\ last.err = "IndexError"
  /\ indices(Store(last.store)) # {}

\* C10: a write that fails leaves both stores as they were, and no operation on
\* one store changes the other store, the index maps or norb.
C10_Frame ==
  [][/\ wfcvars' = wfcvars
     /\ (nops' # nops /\ last'.op = "set" /\ last'.err # "none") =>
          (psi_r' = psi_r /\ psi_g' = psi_g)
     /\ (nops' # nops /\ last'.store = "psi_r") => psi_g' = psi_g
     /\ (nops' # nops /\ last'.store = "psi_g") => psi_r' = psi_r]_vars

\* a write to psi_r was refused by normalize while psi_r held an entry
C10_Witness ==
  /\ last.op = "set" /\ last.store = "psi_r" /\ last.err = "AssertionError"
  /\ indices(psi_r) # {}

====
